---- MODULE Spec2Model ----
(***************************************************************************)
(* Model of spack's `context` command (lib/spack/spack/cmd/context.py):    *)
(* the in-memory Context (user_specs, concretized_order, specs_by_hash),   *)
(* its reconciliation methods, and the three-slot write/read/repair        *)
(* persistence protocol over the directories _N, N and .N.                 *)
(***************************************************************************)
EXTENDS Integers, Sequences, FiniteSets, TLC

\* ------------------------------------------------------------------------
\* Bounds and universe
\* ------------------------------------------------------------------------
\* highest version of package "lib" that the package repository ever offers
MaxVer == 2
\* cap on len(user_specs) accepted by the harness
MaxSpecs == 3
\* cap on the number of calls (add, remove, ..., write, read, repair) in one run
MaxOps == 5
\* cap on the number of commands started in one run
MaxCmds == 2

\* VersionList(':'), the unconstrained version
AnyVersion == 0

Names == {"a", "b", "lib"}
Compilers == {"gcc", "clang"}
NoCompiler == "none"
DefaultCompiler == "gcc"
Versions == 1..MaxVer

\* user-authored request strings, as token sequences: "a", "b", "lib", "lib@v"
UserSpecs == {<<n>> : n \in Names} \cup {<<"lib", "@", v>> : v \in Versions}

\* ------------------------------------------------------------------------
\* spack.spec: the resolver (outside cmd/context.py)
\* ------------------------------------------------------------------------
\* package.py dependency declarations of the mock repository
PkgDeps(n) ==
    CASE n = "a" -> << [name |-> "lib", ver |-> AnyVersion, comp |-> NoCompiler, type |-> "link"] >>
      [] n = "b" -> << [name |-> "lib", ver |-> AnyVersion, comp |-> NoCompiler, type |-> "build"] >>
      [] OTHER -> << >>

\* Spec(string): parse a request into an abstract spec
ParseSpec(us) ==
    [name |-> us[1],
     ver |-> IF Len(us) = 3 THEN us[3] ELSE AnyVersion,
     comp |-> NoCompiler,
     concrete |-> FALSE,
     deps |-> << >>]

\* newest version the repository offers for a package
Available(n, latest) == IF n = "lib" THEN latest ELSE 1

\* can spec.concretize() satisfy s ?
Resolvable(s, latest) ==
    LET ds == IF s.deps = << >> THEN PkgDeps(s.name) ELSE s.deps
    IN /\ s.ver <= Available(s.name, latest)
       /\ \A i \in 1..Len(ds) : ds[i].ver <= Available(ds[i].name, latest)

\* Spec.concretize(): fill in every open attribute; a concrete spec is left alone
ConcretizeSpec(s, latest) ==
    IF s.concrete THEN s
    ELSE LET ds == IF s.deps = << >> THEN PkgDeps(s.name) ELSE s.deps
             c == IF s.comp = NoCompiler THEN DefaultCompiler ELSE s.comp
         IN [name |-> s.name,
             ver |-> IF s.ver = AnyVersion THEN Available(s.name, latest) ELSE s.ver,
             comp |-> c,
             concrete |-> TRUE,
             deps |-> [i \in 1..Len(ds) |->
                        [name |-> ds[i].name,
                         ver |-> IF ds[i].ver = AnyVersion
                                 THEN Available(ds[i].name, latest) ELSE ds[i].ver,
                         comp |-> IF ds[i].comp = NoCompiler THEN c ELSE ds[i].comp,
                         type |-> ds[i].type]]]

NameIdx(n) == CASE n = "a" -> 1 [] n = "b" -> 2 [] OTHER -> 3
CompIdx(c) == CASE c = "gcc" -> 1 [] c = "clang" -> 2 [] OTHER -> 0

\* Spec.dag_hash(): deterministic content hash of the whole graph
DagHash(s) ==
    NameIdx(s.name) * 10000 + s.ver * 1000 + CompIdx(s.comp) * 100
      + (IF s.deps = << >> THEN 0
         ELSE s.deps[1].ver * 10 + CompIdx(s.deps[1].comp) * 2
              + (IF s.deps[1].type = "link" THEN 1 ELSE 0))

\* `dep_name in spec`
Contains(s, n) == s.name = n \/ \E i \in 1..Len(s.deps) : s.deps[i].name = n

\* spec[dep_name] as a node (name, version, compiler)
NodeOf(s, n) ==
    IF s.name = n THEN [name |-> s.name, ver |-> s.ver, comp |-> s.comp]
    ELSE LET i == CHOOSE j \in 1..Len(s.deps) : s.deps[j].name = n
         IN [name |-> n, ver |-> s.deps[i].ver, comp |-> s.deps[i].comp]

\* Spec.to_dict(all_deps=True): node list, root first, edges by name
SpecToDict(s) ==
    [spec |-> << [name |-> s.name, version |-> s.ver, compiler |-> s.comp,
                  dependencies |-> [i \in 1..Len(s.deps) |->
                                      [name |-> s.deps[i].name, type |-> s.deps[i].type]]] >>
              \o [i \in 1..Len(s.deps) |->
                    [name |-> s.deps[i].name, version |-> s.deps[i].ver,
                     compiler |-> s.deps[i].comp, dependencies |-> << >>]]]

\* Spec.from_dict(d): rebuild the graph from the node list
SpecFromDict(d) ==
    LET nodes == d.spec
        root == nodes[1]
        find(n) == CHOOSE j \in 2..Len(nodes) : nodes[j].name = n
    IN [name |-> root.name, ver |-> root.version, comp |-> root.compiler,
        concrete |-> root.version # AnyVersion /\ root.compiler # NoCompiler,
        deps |-> [i \in 1..Len(root.dependencies) |->
                    [name |-> root.dependencies[i].name,
                     ver |-> nodes[find(root.dependencies[i].name)].version,
                     comp |-> nodes[find(root.dependencies[i].name)].compiler,
                     type |-> root.dependencies[i].type]]]

\* ------------------------------------------------------------------------
\* class Context
\* ------------------------------------------------------------------------
EmptyDict == [k \in {} |-> 0]

\* Context.__init__
NewContext(name) ==
    [name |-> name, user_specs |-> << >>, concretized_order |-> << >>, specs_by_hash |-> EmptyDict,
     common_libs |-> EmptyDict, common_bins |-> EmptyDict]

DictPut(d, k, v) == (k :> v) @@ d
DictDel(d, k) == [x \in (DOMAIN d) \ {k} |-> d[x]]
SeqDel(s, i) == [j \in 1..(Len(s) - 1) |-> IF j < i THEN s[j] ELSE s[j + 1]]

\* Context.add comparing whole request strings instead of package names
ContextAddByString(c, user_spec) ==
    LET existing == {i \in 1..Len(c.user_specs) : c.user_specs[i] = user_spec}
    IN IF existing # {}
       THEN [ctx |-> c, result |-> "DuplicatePackage"]
       ELSE [ctx |-> [c EXCEPT !.user_specs = Append(@, user_spec)], result |-> "ok"]

\* Context.add
ContextAdd(c, user_spec) ==
    LET query_spec == ParseSpec(user_spec)
        existing == {i \in 1..Len(c.user_specs) :
                        ParseSpec(c.user_specs[i]).name = query_spec.name}
    IN IF existing # {}
       THEN [ctx |-> c, result |-> "DuplicatePackage"]
       ELSE [ctx |-> [c EXCEPT !.user_specs = Append(@, user_spec)], result |-> "ok"]

\* Context.remove with the alignment test off by one (match_index + 1 < len)
ContextRemoveOffByOne(c, query) ==
    LET query_spec == ParseSpec(query)
        matches == {i \in 1..Len(c.user_specs) :
                        ParseSpec(c.user_specs[i]).name = query_spec.name}
    IN IF matches = {}
       THEN [ctx |-> c, result |-> "NotFound"]
       ELSE LET match_index == CHOOSE i \in matches : \A j \in matches : i <= j
            IN IF match_index < Len(c.concretized_order)
               THEN LET spec_hash == c.concretized_order[match_index]
                    IN [ctx |-> [c EXCEPT
                                 !.user_specs = SeqDel(@, match_index),
                                 !.concretized_order = SeqDel(@, match_index),
                                 !.specs_by_hash = DictDel(@, spec_hash)],
                        result |-> "ok"]
               ELSE [ctx |-> [c EXCEPT !.user_specs = SeqDel(@, match_index)],
                     result |-> "ok"]

\* Context.remove without the tty.die: match_index stays -1, and Python's
\* del user_specs[-1] / concretized_order[-1] drop the last entries
ContextRemoveNoDie(c, query) ==
    LET query_spec == ParseSpec(query)
        matches == {i \in 1..Len(c.user_specs) :
                        ParseSpec(c.user_specs[i]).name = query_spec.name}
        n == Len(c.user_specs)
        m == Len(c.concretized_order)
    IN IF matches = {}
       THEN IF n = 0
            THEN [ctx |-> c, result |-> "IndexError"]
            ELSE IF m = 0
            THEN [ctx |-> [c EXCEPT !.user_specs = SeqDel(@, n)], result |-> "IndexError"]
            ELSE [ctx |-> [c EXCEPT
                              !.user_specs = SeqDel(@, n),
                              !.concretized_order = SeqDel(@, m),
                              !.specs_by_hash = DictDel(@, c.concretized_order[m])],
                  result |-> "ok"]
       ELSE LET match_index == CHOOSE i \in matches : \A j \in matches : i <= j
            IN IF match_index <= Len(c.concretized_order)
               THEN LET spec_hash == c.concretized_order[match_index]
                    IN [ctx |-> [c EXCEPT
                                 !.user_specs = SeqDel(@, match_index),
                                 !.concretized_order = SeqDel(@, match_index),
                                 !.specs_by_hash = DictDel(@, spec_hash)],
                        result |-> "ok"]
               ELSE [ctx |-> [c EXCEPT !.user_specs = SeqDel(@, match_index)],
                     result |-> "ok"]

\* Context.remove
ContextRemove(c, query) ==
    LET query_spec == ParseSpec(query)
        matches == {i \in 1..Len(c.user_specs) :
                        ParseSpec(c.user_specs[i]).name = query_spec.name}
    IN IF matches = {}
       THEN [ctx |-> c, result |-> "NotFound"]
       ELSE LET match_index == CHOOSE i \in matches : \A j \in matches : i <= j
            IN IF match_index <= Len(c.concretized_order)
               THEN LET spec_hash == c.concretized_order[match_index]
                    IN IF spec_hash \in DOMAIN c.specs_by_hash
                       THEN [ctx |-> [c EXCEPT
                                 !.user_specs = SeqDel(@, match_index),
                                 !.concretized_order = SeqDel(@, match_index),
                                 !.specs_by_hash = DictDel(@, spec_hash)],
                             result |-> "ok"]
                       ELSE [ctx |-> [c EXCEPT
                                 !.user_specs = SeqDel(@, match_index),
                                 !.concretized_order = SeqDel(@, match_index)],
                             result |-> "KeyError"]
               ELSE [ctx |-> [c EXCEPT !.user_specs = SeqDel(@, match_index)],
                     result |-> "ok"]

\* the loop of Context.concretize over user_specs[i..], one resolver call each
RECURSIVE ConcretizeFrom(_, _, _, _, _)
ConcretizeFrom(c, i, new_specs, calls, latest) ==
    IF i > Len(c.user_specs)
    THEN [ctx |-> c, result |-> "ok", ret |-> new_specs, calls |-> calls]
    ELSE LET spec0 == ParseSpec(c.user_specs[i])
         IN IF ~Resolvable(spec0, latest)
            THEN [ctx |-> c, result |-> "ResolutionFailure",
                  ret |-> << >>, calls |-> calls + 1]
            ELSE LET spec == ConcretizeSpec(spec0, latest)
                 IN ConcretizeFrom(
                        [c EXCEPT !.specs_by_hash = DictPut(@, DagHash(spec), spec),
                                  !.concretized_order = Append(@, DagHash(spec))],
                        i + 1, Append(new_specs, spec), calls + 1, latest)

\* Context.concretize that starts over from the first request
ContextConcretizeAll(c, latest) ==
    ConcretizeFrom(c, 1, << >>, 0, latest)

\* Context.concretize whose slice starts one request too late
ContextConcretizeSkipOne(c, latest) ==
    ConcretizeFrom(c, Len(c.concretized_order) + 2, << >>, 0, latest)

\* Context.concretize
ContextConcretize(c, latest) ==
    LET num_concretized == Len(c.concretized_order)
    IN ConcretizeFrom(c, num_concretized + 1, << >>, 0, latest)

\* upgrade_dependency_version(spec, dep_name)
UpgradeDependencyVersion(spec, dep_name, latest) ==
    LET cleared == [spec EXCEPT !.concrete = FALSE]
        relaxed == IF cleared.name = dep_name
                   THEN [cleared EXCEPT !.ver = AnyVersion]
                   ELSE [cleared EXCEPT !.deps =
                            [i \in 1..Len(cleared.deps) |->
                               IF cleared.deps[i].name = dep_name
                               THEN [cleared.deps[i] EXCEPT !.ver = AnyVersion]
                               ELSE cleared.deps[i]]]
    IN ConcretizeSpec(relaxed, latest)

\* reset_os_and_compiler(spec, compiler)
ResetSpec(spec, compiler, latest) ==
    LET stripped == [spec EXCEPT
                        !.comp = NoCompiler,
                        !.concrete = FALSE,
                        !.deps = [i \in 1..Len(spec.deps) |->
                                    [spec.deps[i] EXCEPT !.comp = NoCompiler]]]
        forced == IF compiler # NoCompiler
                  THEN [stripped EXCEPT !.comp = compiler] ELSE stripped
    IN ConcretizeSpec(forced, latest)

\* the loop of Context.upgrade_dependency over concretized_order[i..]
RECURSIVE UpgradeFrom(_, _, _, _, _, _, _, _)
UpgradeFrom(c, i, new_order, new_deps, calls, dep_name, dry_run, latest) ==
    IF i > Len(c.concretized_order)
    THEN IF dry_run
         THEN [ctx |-> c, result |-> "ok", ret |-> << >>, calls |-> calls]
         ELSE [ctx |-> [c EXCEPT !.concretized_order = new_order],
               result |-> "ok",
               ret |-> IF new_deps # << >> THEN << new_deps[1] >> ELSE << >>,
               calls |-> calls]
    ELSE LET spec_hash == c.concretized_order[i]
         IN IF spec_hash \notin DOMAIN c.specs_by_hash
            THEN [ctx |-> c, result |-> "KeyError", ret |-> << >>, calls |-> calls]
            ELSE LET spec == c.specs_by_hash[spec_hash]
                 IN IF Contains(spec, dep_name)
                    THEN IF dry_run
                         THEN UpgradeFrom(c, i + 1, new_order, new_deps, calls,
                                          dep_name, dry_run, latest)
                         ELSE LET new_spec ==
                                      UpgradeDependencyVersion(spec, dep_name, latest)
                              IN UpgradeFrom(
                                   [c EXCEPT !.specs_by_hash =
                                        DictPut(@, DagHash(new_spec), new_spec)],
                                   i + 1,
                                   Append(new_order, DagHash(new_spec)),
                                   Append(new_deps, NodeOf(new_spec, dep_name)),
                                   calls + 1, dep_name, dry_run, latest)
                    ELSE UpgradeFrom(c, i + 1, Append(new_order, spec_hash),
                                     new_deps, calls, dep_name, dry_run, latest)

\* the loop of upgrade_dependency without its else branch: a root that does
\* not contain dep_name is not carried over into new_order
RECURSIVE UpgradeFromNoElse(_, _, _, _, _, _, _, _)
UpgradeFromNoElse(c, i, new_order, new_deps, calls, dep_name, dry_run, latest) ==
    IF i > Len(c.concretized_order)
    THEN IF dry_run
         THEN [ctx |-> c, result |-> "ok", ret |-> << >>, calls |-> calls]
         ELSE [ctx |-> [c EXCEPT !.concretized_order = new_order],
               result |-> "ok",
               ret |-> IF new_deps # << >> THEN << new_deps[1] >> ELSE << >>,
               calls |-> calls]
    ELSE LET spec == c.specs_by_hash[c.concretized_order[i]]
         IN IF Contains(spec, dep_name) /\ ~dry_run
            THEN LET new_spec == UpgradeDependencyVersion(spec, dep_name, latest)
                 IN UpgradeFromNoElse(
                      [c EXCEPT !.specs_by_hash = DictPut(@, DagHash(new_spec), new_spec)],
                      i + 1,
                      Append(new_order, DagHash(new_spec)),
                      Append(new_deps, NodeOf(new_spec, dep_name)),
                      calls + 1, dep_name, dry_run, latest)
            ELSE UpgradeFromNoElse(c, i + 1, new_order, new_deps, calls,
                                   dep_name, dry_run, latest)

\* Context.upgrade_dependency built on that loop
ContextUpgradeDropsUntouched(c, dep_name, dry_run, latest) ==
    UpgradeFromNoElse(c, 1, << >>, << >>, 0, dep_name, dry_run, latest)

\* Context.upgrade_dependency that ignores its dry_run argument
ContextUpgradeIgnoresDryRun(c, dep_name, dry_run, latest) ==
    UpgradeFrom(c, 1, << >>, << >>, 0, dep_name, FALSE, latest)

\* Context.upgrade_dependency
ContextUpgradeDependency(c, dep_name, dry_run, latest) ==
    UpgradeFrom(c, 1, << >>, << >>, 0, dep_name, dry_run, latest)

\* the loop of Context.reset_os_and_compiler over concretized_order[i..]
RECURSIVE ResetFrom(_, _, _, _, _, _, _)
ResetFrom(c, i, new_order, new_specs_by_hash, calls, compiler, latest) ==
    IF i > Len(c.concretized_order)
    THEN [ctx |-> [c EXCEPT !.concretized_order = new_order,
                            !.specs_by_hash = new_specs_by_hash],
          result |-> "ok", ret |-> << >>, calls |-> calls]
    ELSE LET spec_hash == c.concretized_order[i]
         IN IF spec_hash \notin DOMAIN c.specs_by_hash
            THEN [ctx |-> c, result |-> "KeyError", ret |-> << >>, calls |-> calls]
            ELSE LET new_spec == ResetSpec(c.specs_by_hash[spec_hash], compiler, latest)
                 IN ResetFrom(c, i + 1,
                              Append(new_order, DagHash(new_spec)),
                              DictPut(new_specs_by_hash, DagHash(new_spec), new_spec),
                              calls + 1, compiler, latest)

\* Context.reset_os_and_compiler that forgets `self.concretized_order = new_order`
ContextResetKeepOrder(c, compiler, latest) ==
    LET r == ResetFrom(c, 1, << >>, EmptyDict, 0, compiler, latest)
    IN [r EXCEPT !.ctx.concretized_order = c.concretized_order]

\* Context.reset_os_and_compiler that fills the old dict instead of a new one
ContextResetIncremental(c, compiler, latest) ==
    ResetFrom(c, 1, << >>, c.specs_by_hash, 0, compiler, latest)

\* Context.reset_os_and_compiler
ContextResetOsAndCompiler(c, compiler, latest) ==
    ResetFrom(c, 1, << >>, EmptyDict, 0, compiler, latest)

\* Context.to_dict
ContextToDict(c) ==
    [user_specs |-> c.user_specs,
     concretized_order |-> c.concretized_order,
     common_libs |-> c.common_libs,
     common_bins |-> c.common_bins]

\* Context.from_dict that forgets concretized_order
ContextFromDictNoOrder(name, d) ==
    [NewContext(name) EXCEPT !.user_specs = d.user_specs,
                             !.common_libs = d.common_libs,
                             !.common_bins = d.common_bins]

\* Context.from_dict
ContextFromDict(name, d) ==
    [NewContext(name) EXCEPT !.user_specs = d.user_specs,
                       !.concretized_order = d.concretized_order,
                       !.common_libs = d.common_libs,
                       !.common_bins = d.common_bins]

\* spec.traverse(deptype=...): the root, then the dependencies reached over
\* edges of the given types
Traverse(s, deptypes) ==
    LET kept == SelectSeq(s.deps, LAMBDA d : d.type \in deptypes)
    IN << [name |-> s.name, ver |-> s.ver, comp |-> s.comp] >>
       \o [i \in 1..Len(kept) |->
             [name |-> kept[i].name, ver |-> kept[i].ver, comp |-> kept[i].comp]]

\* the inner loop of _get_environment_specs with the branches swapped in
\* effect: a later node replaces the selected one
RECURSIVE FlattenNodesLastWins(_, _, _, _)
FlattenNodesLastWins(nodes, j, package_to_spec, warnings) ==
    IF j > Len(nodes)
    THEN [package_to_spec |-> package_to_spec, warnings |-> warnings]
    ELSE LET dep == nodes[j]
         IN IF dep.name \in DOMAIN package_to_spec
            THEN FlattenNodesLastWins(nodes, j + 1,
                     DictPut(package_to_spec, dep.name, dep),
                     Append(warnings, [winner |-> dep,
                                       loser |-> package_to_spec[dep.name]]))
            ELSE FlattenNodesLastWins(nodes, j + 1,
                     DictPut(package_to_spec, dep.name, dep), warnings)

\* the inner loop of _get_environment_specs over the nodes of one root
RECURSIVE FlattenNodes(_, _, _, _)
FlattenNodes(nodes, j, package_to_spec, warnings) ==
    IF j > Len(nodes)
    THEN [package_to_spec |-> package_to_spec, warnings |-> warnings]
    ELSE LET dep == nodes[j]
         IN IF dep.name \in DOMAIN package_to_spec
            THEN FlattenNodes(nodes, j + 1, package_to_spec,
                     Append(warnings, [winner |-> package_to_spec[dep.name],
                                       loser |-> dep]))
            ELSE FlattenNodes(nodes, j + 1,
                     DictPut(package_to_spec, dep.name, dep), warnings)

\* the outer loop of _get_environment_specs over concretized_order[i..]
RECURSIVE FlattenFrom(_, _, _, _)
FlattenFrom(c, i, package_to_spec, warnings) ==
    IF i > Len(c.concretized_order)
    THEN [result |-> "ok", package_to_spec |-> package_to_spec,
          warnings |-> warnings]
    ELSE LET spec_hash == c.concretized_order[i]
         IN IF spec_hash \notin DOMAIN c.specs_by_hash
            THEN [result |-> "KeyError", package_to_spec |-> package_to_spec,
                  warnings |-> warnings]
            ELSE LET r == FlattenNodes(
                              Traverse(c.specs_by_hash[spec_hash], {"link", "run"}),
                              1, package_to_spec, warnings)
                 IN FlattenFrom(c, i + 1, r.package_to_spec, r.warnings)

\* Context._get_environment_specs
GetEnvironmentSpecs(c) == FlattenFrom(c, 1, EmptyDict, << >>)

\* ------------------------------------------------------------------------
\* Durable store: _db_dirname holds directories; a directory holds files
\* ------------------------------------------------------------------------
\* the one context name the harness works on
N == "N"

\* the module-level function `context(parser, args)`: an object without `name`
ContextCommand == [func_name |-> "context"]

\* write_paths(context): needs context.name
WritePaths(obj) ==
    IF "name" \in DOMAIN obj
    THEN [ok |-> TRUE,
          tmp_new |-> <<"_", obj.name>>,
          dest |-> <<"", obj.name>>,
          tmp_old |-> <<".", obj.name>>]
    ELSE [ok |-> FALSE]

\* the three sibling paths of context N
Slots == WritePaths(NewContext(N))

\* os.path.exists
Exists(d, path) == path \in DOMAIN d

\* fs.mkdirp
MkDirP(d, path) == IF Exists(d, path) THEN d ELSE DictPut(d, path, EmptyDict)

\* open(join_path(path, fname), 'w') and dump, or copytree into path/fname
PutFile(d, path, fname, content) ==
    [d EXCEPT ![path] = DictPut(@, fname, content)]

\* shutil.move(src, dst) of a directory onto a free name: one rename
Move(d, src, dst) ==
    IF Exists(d, src) THEN DictPut(DictDel(d, src), dst, d[src]) ELSE d

\* shutil.rmtree, first half: the entries are unlinked, the directory remains
RmTreeFiles(d, path) == [d EXCEPT ![path] = EmptyDict]

\* shutil.rmtree: the directory is gone
RmTree(d, path) == DictDel(d, path)

\* store_specs_by_hash
StoreSpecsByHash(specs_by_hash) ==
    [k \in DOMAIN specs_by_hash |-> SpecToDict(specs_by_hash[k])]

\* write's residue test with `and` in place of `or`
WriteSeesBothResidues(d, paths) == Exists(d, paths.tmp_new) /\ Exists(d, paths.tmp_old)

\* write: the residue test on entry
WriteSeesResidue(d, paths) == Exists(d, paths.tmp_new) \/ Exists(d, paths.tmp_old)

\* read: the residue test on entry
ReadSeesResidue(d, paths) == Exists(d, paths.tmp_new) \/ Exists(d, paths.tmp_old)

\* read that loads full_specs.json but never assigns context.specs_by_hash
ReadContextNoInstalls(d, context_name) ==
    LET paths == WritePaths(NewContext(context_name))
        context_dir == paths.dest
    IN IF ReadSeesResidue(d, paths)
       THEN [result |-> "PartialWriteState", ctx |-> NewContext(context_name)]
       ELSE IF ~Exists(d, context_dir) \/ "context.yaml" \notin DOMAIN d[context_dir]
       THEN [result |-> "IOError", ctx |-> NewContext(context_name)]
       ELSE LET context == ContextFromDict(context_name, d[context_dir]["context.yaml"])
            IN IF "full_specs.json" \notin DOMAIN d[context_dir]
               THEN [result |-> "IOError", ctx |-> NewContext(context_name)]
               ELSE [result |-> "ok", ctx |-> context]

\* read(context_name)
ReadContext(d, context_name) ==
    LET paths == WritePaths(NewContext(context_name))
        context_dir == paths.dest
    IN IF ReadSeesResidue(d, paths)
       THEN [result |-> "PartialWriteState", ctx |-> NewContext(context_name)]
       ELSE IF ~Exists(d, context_dir) \/ "context.yaml" \notin DOMAIN d[context_dir]
       THEN [result |-> "IOError", ctx |-> NewContext(context_name)]
       ELSE LET context == ContextFromDict(context_name, d[context_dir]["context.yaml"])
            IN IF "full_specs.json" \notin DOMAIN d[context_dir]
               THEN [result |-> "IOError", ctx |-> NewContext(context_name)]
               ELSE LET install_dict == d[context_dir]["full_specs.json"]
                        installs == [x \in DOMAIN install_dict |->
                                        SpecFromDict(install_dict[x])]
                    IN [result |-> "ok",
                        ctx |-> [context EXCEPT !.specs_by_hash = installs]]

\* repair(context_name)
RepairStore(d, context_name) ==
    LET c == NewContext(context_name)
        paths == WritePaths(ContextCommand)
    IN IF ~paths.ok
       THEN [result |-> "AttributeError", disk |-> d]
       ELSE LET d1 == IF Exists(d, paths.tmp_old)
                      THEN IF ~Exists(d, paths.dest)
                           THEN Move(d, paths.tmp_new, paths.dest)
                           ELSE RmTree(d, paths.tmp_old)
                      ELSE d
                d2 == IF Exists(d1, paths.tmp_new) THEN RmTree(d1, paths.tmp_new) ELSE d1
            IN [result |-> "ok", disk |-> d2]

\* the package names a definition snapshot built for context c would hold
RepoOf(c) ==
    UNION {{c.specs_by_hash[h].name} \cup
           {c.specs_by_hash[h].deps[i].name : i \in 1..Len(c.specs_by_hash[h].deps)}
           : h \in DOMAIN c.specs_by_hash}

\* ------------------------------------------------------------------------
\* The command handlers (context_add, context_remove, ...)
\* ------------------------------------------------------------------------
\* os.path.basename of one of the three sibling paths
BaseName(path) == path[1] \o path[2]

\* open(join_path(path, fname), 'w'): fails when the directory is gone
OpenWrite(d, path, fname, content) ==
    IF Exists(d, path)
    THEN [ok |-> TRUE, disk |-> PutFile(d, path, fname, content)]
    ELSE [ok |-> FALSE, disk |-> d]

\* shutil.copytree(src, join_path(path, fname)): makedirs creates the parents
\* and fails when the target already exists
CopyTree(d, path, fname, content) ==
    IF Exists(d, path) /\ fname \in DOMAIN d[path]
    THEN [ok |-> FALSE, disk |-> d]
    ELSE [ok |-> TRUE, disk |-> PutFile(MkDirP(d, path), path, fname, content)]

\* shutil.move(src, dst): a rename, or a move into dst when dst is a directory
ShutilMove(d, src, dst) ==
    IF ~Exists(d, src)
    THEN [ok |-> FALSE, disk |-> d]
    ELSE IF Exists(d, dst)
    THEN IF BaseName(src) \in DOMAIN d[dst]
         THEN [ok |-> FALSE, disk |-> d]
         ELSE [ok |-> TRUE,
               disk |-> [DictDel(d, src) EXCEPT ![dst] = DictPut(@, BaseName(src), d[src])]]
    ELSE [ok |-> TRUE, disk |-> DictPut(DictDel(d, src), dst, d[src])]

\* write without its lines 235-236: dest is never parked
ParkDestSkipped(d, paths) == [ok |-> TRUE, disk |-> d]

\* write, lines 235-236: an existing dest is moved aside to tmp_old
ParkDest(d, paths) ==
    IF Exists(d, paths.dest)
    THEN ShutilMove(d, paths.dest, paths.tmp_old)
    ELSE [ok |-> TRUE, disk |-> d]

\* the loop of context_add over the parsed packages, from args[i]
RECURSIVE RunAdd(_, _, _)
RunAdd(c, args, i) ==
    IF i > Len(args)
    THEN [ctx |-> c, result |-> "ok"]
    ELSE LET r == ContextAdd(c, args[i])
         IN IF r.result # "ok" THEN r ELSE RunAdd(r.ctx, args, i + 1)

\* the loop of context_remove over the parsed packages, from args[i]
RECURSIVE RunRemove(_, _, _)
RunRemove(c, args, i) ==
    IF i > Len(args)
    THEN [ctx |-> c, result |-> "ok"]
    ELSE LET r == ContextRemove(c, args[i])
         IN IF r.result # "ok" THEN r ELSE RunRemove(r.ctx, args, i + 1)

\* prepare_repository(context, remove): a private copy of N/repo (or a new
\* empty repository) from which the directories of `remove` are deleted
PrepareRepository(d, c, remove) ==
    LET dest == WritePaths(c).dest
        copied == IF Exists(d, dest) /\ "repo" \in DOMAIN d[dest]
                  THEN d[dest]["repo"] ELSE {}
    IN IF remove \subseteq copied
       THEN [result |-> "ok", repo |-> copied \ remove]
       ELSE [result |-> "OSError", repo |-> copied]

\* the package names dump_to_context_repo is called with for one new graph
SpecNames(spec) == {spec.name} \cup {spec.deps[i].name : i \in 1..Len(spec.deps)}

MutatingCommands == {"create", "add", "remove", "concretize", "relocate", "upgrade"}

\* a handler that reaches write() whatever the Context method did
WritesBackAlways(cmd, dry_run, result, ret) == cmd \in MutatingCommands

\* does the handler go on to write(context) ?  An exception ends the
\* command; upgrade writes only `if not args.dry_run and new_dep`
WritesBack(cmd, dry_run, result, ret) ==
    /\ cmd \in MutatingCommands
    /\ result = "ok"
    /\ cmd = "upgrade" => (~dry_run /\ ret # << >>)

\* the part of a handler between read() and write()
RunCommand(cmd, args, dry_run, c, repo, latest) ==
    CASE cmd = "add" ->
           LET r == RunAdd(c, args, 1)
           IN [ctx |-> r.ctx, result |-> r.result, calls |-> 0, repo |-> repo,
               new_repo |-> FALSE,
               write |-> WritesBack(cmd, dry_run, r.result, << >>)]
      [] cmd = "remove" ->
           LET r == RunRemove(c, args, 1)
           IN [ctx |-> r.ctx, result |-> r.result, calls |-> 0, repo |-> repo,
               new_repo |-> FALSE,
               write |-> WritesBack(cmd, dry_run, r.result, << >>)]
      [] cmd = "concretize" ->
           LET r == ContextConcretize(c, latest)
           IN [ctx |-> r.ctx, result |-> r.result, calls |-> r.calls,
               repo |-> repo \cup UNION {SpecNames(r.ret[i]) : i \in 1..Len(r.ret)},
               new_repo |-> TRUE,
               write |-> WritesBack(cmd, dry_run, r.result, r.ret)]
      [] cmd = "relocate" ->
           LET r == ContextResetOsAndCompiler(c, args[1][1], latest)
           IN [ctx |-> r.ctx, result |-> r.result, calls |-> r.calls, repo |-> repo,
               new_repo |-> FALSE,
               write |-> WritesBack(cmd, dry_run, r.result, r.ret)]
      [] cmd = "upgrade" ->
           LET r == ContextUpgradeDependency(c, args[1][1], dry_run, latest)
               w == WritesBack(cmd, dry_run, r.result, r.ret)
           IN [ctx |-> r.ctx, result |-> r.result, calls |-> r.calls,
               repo |-> IF r.ret # << >> THEN repo \cup {r.ret[1].name} ELSE repo,
               new_repo |-> TRUE,
               write |-> w]
      [] OTHER ->
           [ctx |-> c, result |-> "ok", calls |-> 0, repo |-> repo,
            new_repo |-> FALSE, write |-> FALSE]

\* the committed directory a completed write(c, repo) leaves behind
StoreOf(c, repo) ==
    LET files == ("context.yaml" :> ContextToDict(c))
                 @@ ("full_specs.json" :> StoreSpecsByHash(c.specs_by_hash))
    IN (Slots.dest :> (IF repo = << >> THEN files ELSE ("repo" :> repo[1]) @@ files))

\* stores left by `create`, by `create; add a lib@2`, and by
\* `create; add a; concretize` while lib@1 was the newest version
PreparedStores ==
    LET created == NewContext(N)
        pending == RunAdd(created, << <<"a">>, <<"lib", "@", 2>> >>, 1).ctx
        resolved == ContextConcretize(RunAdd(created, << <<"a">> >>, 1).ctx, 1).ctx
    IN {EmptyDict,
        StoreOf(created, << >>),
        StoreOf(pending, << >>),
        StoreOf(resolved, << RepoOf(resolved) >>)}

Procs == {1, 2}

\* a process before it is given a command
IdleProc ==
    [pc |-> "idle", cmd |-> "none", args |-> << >>, dry_run |-> FALSE,
     ctx |-> NewContext(N), repo |-> {}, new_repo |-> FALSE,
     result |-> "none", calls |-> 0, started |-> 0,
     wrote |-> FALSE,      \* some step of this command changed the store
     seen |-> << >>,       \* the Context this command's read() returned
     snap |-> << >>,       \* N as a whole at the instants read() loaded its two files
     overlap |-> FALSE,    \* read() returned while the other command had not committed
     entered |-> FALSE,    \* this command passed the residue test of write()
     solo |-> FALSE,       \* no other write() was in progress during this write()
     did_commit |-> FALSE, \* this command renamed _N to N
     landed |-> FALSE]     \* when write() returned, N held exactly this command's Context

\* ------------------------------------------------------------------------
\* State
\* ------------------------------------------------------------------------
VARIABLES
    ctx,      \* the Context object held in memory by the running process
    disk,     \* _db_dirname: path -> directory (file name -> content)
    pc,       \* position of the process inside write(), or "idle"
    wrepo,    \* the new_repo argument of the running write(): << >> or <<repo>>
    latest,   \* newest version of "lib" the package repository offers
    last,     \* the most recent call: operation, argument, outcome
    committed,\* the Context whose write last passed the commit rename: << >> or <<c>>
    wPrior,   \* the committed Context when the latest write() began: << >> or <<c>>
    wNew,     \* the Context the latest write() was given: << >> or <<c>>
    crashAt,  \* position at which the latest write() was interrupted
    phase,    \* crash/repair/read and write/read sequencing of the latest calls
    nops,     \* number of calls made so far
    procs     \* the command processes: position, arguments, local Context

vars == <<ctx, disk, pc, wrepo, latest, last, committed, wPrior, wNew, crashAt, phase,
          nops, procs>>

Call(op, arg, result, ret, calls) ==
    [op |-> op, arg |-> arg, result |-> result, ret |-> ret, calls |-> calls]

Init ==
    /\ ctx = NewContext(N)
    /\ disk = EmptyDict
    /\ pc = "idle"
    /\ wrepo = << >>
    /\ latest = 1
    /\ last = Call("init", << >>, "ok", << >>, 0)
    /\ committed = << >>
    /\ wPrior = << >>
    /\ wNew = << >>
    /\ crashAt = "none"
    /\ phase = "none"
    /\ nops = 0
    /\ procs = [p \in Procs |-> IdleProc]

\* ------------------------------------------------------------------------
\* Calls on the in-memory Context
\* ------------------------------------------------------------------------
Add(user_spec) ==
    /\ pc = "idle"
    /\ nops < MaxOps
    /\ nops' = nops + 1
    /\ Len(ctx.user_specs) < MaxSpecs
    /\ LET r == ContextAdd(ctx, user_spec)
       IN /\ ctx' = r.ctx
          /\ last' = Call("add", user_spec, r.result, << >>, 0)
    /\ phase' = "none"
    /\ UNCHANGED <<disk, pc, wrepo, latest, committed, wPrior, wNew, crashAt, procs>>

Remove(query) ==
    /\ pc = "idle"
    /\ nops < MaxOps
    /\ nops' = nops + 1
    /\ LET r == ContextRemove(ctx, query)
       IN /\ ctx' = r.ctx
          /\ last' = Call("remove", query, r.result, << >>, 0)
    /\ phase' = "none"
    /\ UNCHANGED <<disk, pc, wrepo, latest, committed, wPrior, wNew, crashAt, procs>>

Concretize ==
    /\ pc = "idle"
    /\ nops < MaxOps
    /\ nops' = nops + 1
    /\ LET r == ContextConcretize(ctx, latest)
       IN /\ ctx' = r.ctx
          /\ last' = Call("concretize", << >>, r.result, r.ret, r.calls)
          /\ phase' = IF r.result # "ok" THEN "none"
                      ELSE IF phase \in {"concretized", "reconcretized"}
                      THEN "reconcretized" ELSE "concretized"
    /\ UNCHANGED <<disk, pc, wrepo, latest, committed, wPrior, wNew, crashAt, procs>>

UpgradeDependency(dep_name, dry_run) ==
    /\ pc = "idle"
    /\ nops < MaxOps
    /\ nops' = nops + 1
    /\ LET r == ContextUpgradeDependency(ctx, dep_name, dry_run, latest)
       IN /\ ctx' = r.ctx
          /\ last' = Call("upgrade_dependency",
                          <<dep_name, IF dry_run THEN "dry_run" ELSE "run">>,
                          r.result, r.ret, r.calls)
          /\ phase' = IF r.result = "ok"
                         /\ Cardinality(DOMAIN r.ctx.specs_by_hash)
                               > Len(r.ctx.concretized_order)
                      THEN "orphaned" ELSE "none"
    /\ UNCHANGED <<disk, pc, wrepo, latest, committed, wPrior, wNew, crashAt, procs>>

ResetOsAndCompiler(compiler) ==
    /\ pc = "idle"
    /\ nops < MaxOps
    /\ nops' = nops + 1
    /\ LET r == ContextResetOsAndCompiler(ctx, compiler, latest)
       IN /\ ctx' = r.ctx
          /\ last' = Call("reset_os_and_compiler", <<compiler>>,
                          r.result, r.ret, r.calls)
    /\ phase' = IF phase = "orphaned" THEN "rebuilt" ELSE "none"
    /\ UNCHANGED <<disk, pc, wrepo, latest, committed, wPrior, wNew, crashAt, procs>>

\* the package repository publishes a newer "lib"
NewRelease ==
    /\ pc = "idle"
    /\ nops < MaxOps
    /\ nops' = nops + 1
    /\ latest < MaxVer
    /\ latest' = latest + 1
    /\ last' = Call("release", << >>, "ok", << >>, 0)
    /\ phase' = "none"
    /\ UNCHANGED <<ctx, disk, pc, wrepo, committed, wPrior, wNew, crashAt, procs>>

\* Context._get_environment_specs, with the tty.warn messages it emits
Flatten ==
    /\ pc = "idle"
    /\ nops < MaxOps
    /\ nops' = nops + 1
    /\ LET r == GetEnvironmentSpecs(ctx)
       IN last' = Call("flatten", << >>, r.result,
                       << [package_to_spec |-> r.package_to_spec,
                           specs |-> {r.package_to_spec[n] :
                                         n \in DOMAIN r.package_to_spec},
                           warnings |-> r.warnings] >>, 0)
    /\ phase' = "none"
    /\ UNCHANGED <<ctx, disk, pc, wrepo, latest, committed, wPrior, wNew, crashAt, procs>>

\* TestContext.test_to_dict: Context.from_dict('test_copy', c.to_dict())
DictRoundTrip ==
    /\ pc = "idle"
    /\ nops < MaxOps
    /\ nops' = nops + 1
    /\ last' = Call("from_dict", << >>, "ok",
                    << ContextFromDict("test_copy", ContextToDict(ctx)) >>, 0)
    /\ phase' = "none"
    /\ UNCHANGED <<ctx, disk, pc, wrepo, latest, committed, wPrior, wNew, crashAt, procs>>

\* ------------------------------------------------------------------------
\* write(context, new_repo), statement by statement
\* ------------------------------------------------------------------------
\* lines 216-221: residue test, then mkdirp(tmp_new)
WriteBegin(new_repo) ==
    /\ pc = "idle"
    /\ nops < MaxOps
    /\ nops' = nops + 1
    /\ LET paths == WritePaths(ctx)
       IN IF WriteSeesResidue(disk, paths)
          THEN /\ last' = Call("write", << >>, "PartialWriteState", << >>, 0)
               /\ UNCHANGED <<disk, pc, wrepo, wPrior, wNew>>
          ELSE /\ disk' = MkDirP(disk, paths.tmp_new)
               /\ pc' = "w_specs"
               /\ wrepo' = new_repo
               /\ wPrior' = IF Exists(disk, paths.dest) THEN committed ELSE << >>
               /\ wNew' = << ctx >>
               /\ last' = Call("write", << >>, "running", << >>, 0)
    /\ phase' = "none"
    /\ UNCHANGED <<ctx, latest, committed, crashAt, procs>>

\* lines 223-224: full_specs.json
WriteSpecs ==
    /\ pc = "w_specs"
    /\ disk' = PutFile(disk, WritePaths(ctx).tmp_new, "full_specs.json",
                       StoreSpecsByHash(ctx.specs_by_hash))
    /\ pc' = "w_yaml"
    /\ UNCHANGED <<ctx, wrepo, latest, last, committed, wPrior, wNew, crashAt, phase, nops, procs>>

\* lines 226-227: context.yaml
WriteYaml ==
    /\ pc = "w_yaml"
    /\ disk' = PutFile(disk, WritePaths(ctx).tmp_new, "context.yaml",
                       ContextToDict(ctx))
    /\ pc' = "w_repo"
    /\ UNCHANGED <<ctx, wrepo, latest, last, committed, wPrior, wNew, crashAt, phase, nops, procs>>

\* lines 229-233: the definition snapshot
WriteRepo ==
    /\ pc = "w_repo"
    /\ LET paths == WritePaths(ctx)
       IN disk' = IF wrepo # << >>
                  THEN PutFile(disk, paths.tmp_new, "repo", wrepo[1])
                  ELSE IF Exists(disk, paths.dest) /\ "repo" \in DOMAIN disk[paths.dest]
                  THEN PutFile(disk, paths.tmp_new, "repo", disk[paths.dest]["repo"])
                  ELSE disk
    /\ pc' = "w_park"
    /\ UNCHANGED <<ctx, wrepo, latest, last, committed, wPrior, wNew, crashAt, phase, nops, procs>>

\* lines 235-236: park the committed directory
WritePark ==
    /\ pc = "w_park"
    /\ LET paths == WritePaths(ctx)
       IN disk' = IF Exists(disk, paths.dest)
                  THEN Move(disk, paths.dest, paths.tmp_old) ELSE disk
    /\ pc' = "w_commit"
    /\ UNCHANGED <<ctx, wrepo, latest, last, committed, wPrior, wNew, crashAt, phase, nops, procs>>

\* line 237: the commit rename
WriteCommit ==
    /\ pc = "w_commit"
    /\ LET paths == WritePaths(ctx)
       IN disk' = Move(disk, paths.tmp_new, paths.dest)
    /\ pc' = "w_clean"
    /\ committed' = wNew
    /\ UNCHANGED <<ctx, wrepo, latest, last, wPrior, wNew, crashAt, phase, nops, procs>>

\* lines 238-239: rmtree(tmp_old) unlinks the entries ...
WriteCleanFiles ==
    /\ pc = "w_clean"
    /\ Exists(disk, WritePaths(ctx).tmp_old)
    /\ disk' = RmTreeFiles(disk, WritePaths(ctx).tmp_old)
    /\ pc' = "w_rmdir"
    /\ UNCHANGED <<ctx, wrepo, latest, last, committed, wPrior, wNew, crashAt, phase, nops, procs>>

\* ... and then the directory; write() returns
WriteReturn ==
    /\ \/ pc = "w_rmdir" /\ disk' = RmTree(disk, WritePaths(ctx).tmp_old)
       \/ pc = "w_clean" /\ ~Exists(disk, WritePaths(ctx).tmp_old) /\ disk' = disk
    /\ pc' = "idle"
    /\ last' = Call("write", << >>, "ok", << >>, 0)
    /\ phase' = "written"
    /\ UNCHANGED <<ctx, wrepo, latest, committed, wPrior, wNew, crashAt, nops, procs>>

\* the process dies inside write(); the next process starts from Context(N)
Crash ==
    /\ pc # "idle"
    /\ pc' = "idle"
    /\ crashAt' = pc
    /\ ctx' = NewContext(N)
    /\ last' = Call("crash", << >>, "killed", << >>, 0)
    /\ phase' = "crashed"
    /\ UNCHANGED <<disk, wrepo, latest, committed, wPrior, wNew, nops, procs>>

\* ------------------------------------------------------------------------
\* read(context_name) and repair(context_name)
\* ------------------------------------------------------------------------
Read ==
    /\ pc = "idle"
    /\ nops < MaxOps
    /\ nops' = nops + 1
    /\ LET r == ReadContext(disk, N)
       IN /\ ctx' = IF r.result = "ok" THEN r.ctx ELSE ctx
          /\ last' = Call("read", << >>, r.result, << >>, 0)
    /\ phase' = CASE phase = "written" -> "roundtrip"
                  [] phase = "repaired" -> "checked"
                  [] phase = "crashed" -> "crash_read"
                  [] OTHER -> "none"
    /\ UNCHANGED <<disk, pc, wrepo, latest, committed, wPrior, wNew, crashAt, procs>>

Repair ==
    /\ pc = "idle"
    /\ nops < MaxOps
    /\ nops' = nops + 1
    /\ LET r == RepairStore(disk, N)
       IN /\ disk' = r.disk
          /\ last' = Call("repair", << >>, r.result, << >>, 0)
          /\ committed' = IF Exists(r.disk, Slots.dest) /\ ~Exists(disk, Slots.dest)
                          THEN wNew ELSE committed
    /\ phase' = IF phase = "crashed" THEN "repaired" ELSE "none"
    /\ UNCHANGED <<ctx, pc, wrepo, latest, wPrior, wNew, crashAt, procs>>

Next ==
    \/ \E user_spec \in UserSpecs : Add(user_spec)
    \/ \E n \in Names : Remove(<<n>>)
    \/ Concretize
    \/ \E dep_name \in Names, dry_run \in BOOLEAN : UpgradeDependency(dep_name, dry_run)
    \/ \E compiler \in {NoCompiler, "clang"} : ResetOsAndCompiler(compiler)
    \/ NewRelease
    \/ \E new_repo \in {<< >>, << RepoOf(ctx) >>} : WriteBegin(new_repo)
    \/ WriteSpecs
    \/ WriteYaml
    \/ WriteRepo
    \/ WritePark
    \/ WriteCommit
    \/ WriteCleanFiles
    \/ WriteReturn
    \/ Crash
    \/ Read
    \/ Repair

Spec == Init /\ [][Next]_vars

\* the Context methods alone, as the unit tests drive them
NextMem ==
    \/ \E user_spec \in UserSpecs : Add(user_spec)
    \/ \E n \in Names : Remove(<<n>>)
    \/ Concretize
    \/ \E dep_name \in Names, dry_run \in BOOLEAN : UpgradeDependency(dep_name, dry_run)
    \/ \E compiler \in {NoCompiler, "clang"} : ResetOsAndCompiler(compiler)
    \/ NewRelease
    \/ Flatten
    \/ DictRoundTrip

SpecMem == Init /\ [][NextMem]_vars

\* ------------------------------------------------------------------------
\* Properties
\* ------------------------------------------------------------------------
\* Two command processes on the same context
\* ------------------------------------------------------------------------
InWrite == {"w_mkdir", "w_specs", "w_yaml", "w_repo", "w_park", "w_commit", "w_clean"}

Other(p) == CHOOSE q \in Procs : q # p

Started == procs[1].started + procs[2].started

\* what the commands leave alone: the single-process session
CmdFrame == UNCHANGED <<ctx, pc, wrepo, latest, last, committed, wPrior, wNew,
                        crashAt, phase, nops>>

\* the command ends with an exception
Die(p, error) == [procs[p] EXCEPT !.pc = "done", !.result = error]

\* N as a completed write(c) leaves it, the repository aside
Holds(d, c) ==
    /\ Exists(d, Slots.dest)
    /\ "context.yaml" \in DOMAIN d[Slots.dest]
    /\ "full_specs.json" \in DOMAIN d[Slots.dest]
    /\ d[Slots.dest]["context.yaml"] = ContextToDict(c)
    /\ d[Slots.dest]["full_specs.json"] = StoreSpecsByHash(c.specs_by_hash)

\* both files of N loaded at one instant
LoadBoth(d) ==
    [ContextFromDict(N, d[Slots.dest]["context.yaml"]) EXCEPT
        !.specs_by_hash = [x \in DOMAIN d[Slots.dest]["full_specs.json"] |->
                              SpecFromDict(d[Slots.dest]["full_specs.json"][x])]]

\* the command lines a process may be given; args holds the positional
\* words (packages, --compiler, dep_name), one token list each
CommandLines ==
    {[cmd |-> "create", args |-> << >>, dry_run |-> FALSE],
     [cmd |-> "list", args |-> << >>, dry_run |-> FALSE],
     [cmd |-> "add", args |-> << <<"b">> >>, dry_run |-> FALSE],
     [cmd |-> "add", args |-> << <<"b">>, <<"a">> >>, dry_run |-> FALSE],
     [cmd |-> "remove", args |-> << <<"a">> >>, dry_run |-> FALSE],
     [cmd |-> "remove", args |-> << <<"a">>, <<"b">> >>, dry_run |-> FALSE],
     [cmd |-> "concretize", args |-> << >>, dry_run |-> FALSE],
     [cmd |-> "relocate", args |-> << <<"clang">> >>, dry_run |-> FALSE],
     [cmd |-> "upgrade", args |-> << <<"lib">> >>, dry_run |-> FALSE],
     [cmd |-> "upgrade", args |-> << <<"lib">> >>, dry_run |-> TRUE]}

\* context(parser, args): dispatch to the handler
Start(p, line) ==
    /\ procs[p].pc \in {"idle", "done"}
    /\ Started < MaxCmds
    /\ procs' = [procs EXCEPT ![p] =
                    [IdleProc EXCEPT !.cmd = line.cmd, !.args = line.args,
                                     !.dry_run = line.dry_run,
                                     !.started = procs[p].started + 1,
                                     !.pc = IF line.cmd = "create"
                                            THEN "c_check" ELSE "r_check"]]
    /\ UNCHANGED disk
    /\ CmdFrame

\* context_create, up to its call of write
CreateCheck(p) ==
    /\ procs[p].pc = "c_check"
    /\ procs' = [procs EXCEPT ![p] =
                    IF Exists(disk, WritePaths(NewContext(N)).dest)
                    THEN Die(p, "ContextAlreadyExists")
                    ELSE [procs[p] EXCEPT !.pc = "w_check", !.ctx = NewContext(N)]]
    /\ UNCHANGED disk
    /\ CmdFrame

\* read: the residue test
ReadCheck(p) ==
    /\ procs[p].pc = "r_check"
    /\ procs' = [procs EXCEPT ![p] =
                    IF ReadSeesResidue(disk, Slots)
                    THEN Die(p, "PartialWriteState")
                    ELSE [procs[p] EXCEPT !.pc = "r_yaml"]]
    /\ UNCHANGED disk
    /\ CmdFrame

\* read: context.yaml is loaded and Context.from_dict applied
ReadYaml(p) ==
    /\ procs[p].pc = "r_yaml"
    /\ procs' = [procs EXCEPT ![p] =
                    IF ~Exists(disk, Slots.dest)
                       \/ "context.yaml" \notin DOMAIN disk[Slots.dest]
                    THEN Die(p, "IOError")
                    ELSE [procs[p] EXCEPT
                            !.pc = "r_json",
                            !.ctx = ContextFromDict(N, disk[Slots.dest]["context.yaml"]),
                            !.snap = IF "full_specs.json" \in DOMAIN disk[Slots.dest]
                                     THEN << LoadBoth(disk) >> ELSE << >>]]
    /\ UNCHANGED disk
    /\ CmdFrame

\* read: full_specs.json is loaded into context.specs_by_hash; the handler
\* has its Context
ReadJson(p) ==
    /\ procs[p].pc = "r_json"
    /\ procs' = [procs EXCEPT ![p] =
                    IF ~Exists(disk, Slots.dest)
                       \/ "full_specs.json" \notin DOMAIN disk[Slots.dest]
                    THEN Die(p, "IOError")
                    ELSE LET install_dict == disk[Slots.dest]["full_specs.json"]
                             installs == [x \in DOMAIN install_dict |->
                                             SpecFromDict(install_dict[x])]
                             context == [procs[p].ctx EXCEPT !.specs_by_hash = installs]
                         IN [procs[p] EXCEPT
                               !.ctx = context,
                               !.seen = << context >>,
                               !.snap = IF "context.yaml" \in DOMAIN disk[Slots.dest]
                                        THEN Append(@, LoadBoth(disk)) ELSE @,
                               !.pc = IF procs[p].cmd = "list" THEN "done" ELSE "run",
                               !.result = IF procs[p].cmd = "list" THEN "ok" ELSE @]]
    /\ UNCHANGED disk
    /\ CmdFrame

\* the handler between read() and write(): prepare_repository where the
\* handler calls it, then the Context method(s)
Run(p) ==
    /\ procs[p].pc = "run"
    /\ LET me == procs[p]
           remove == IF me.cmd = "upgrade" THEN {me.args[1][1]} ELSE {}
           prep == IF me.cmd \in {"concretize", "relocate", "upgrade"}
                   THEN PrepareRepository(disk, me.ctx, remove)
                   ELSE [result |-> "ok", repo |-> {}]
           r == RunCommand(me.cmd, me.args, me.dry_run, me.ctx, prep.repo, latest)
       IN procs' = [procs EXCEPT ![p] =
                      IF prep.result # "ok"
                      THEN Die(p, prep.result)
                      ELSE [me EXCEPT !.ctx = r.ctx, !.result = r.result,
                                      !.calls = r.calls, !.repo = r.repo,
                                      !.new_repo = r.new_repo,
                                      !.pc = IF r.write THEN "w_check" ELSE "done"]]
    /\ UNCHANGED disk
    /\ CmdFrame

\* write: the residue test
WCheck(p) ==
    /\ procs[p].pc = "w_check"
    /\ LET q == Other(p)
           busy == procs[q].pc \in InWrite
       IN procs' = IF WriteSeesResidue(disk, WritePaths(procs[p].ctx))
                   THEN [procs EXCEPT ![p] = Die(p, "PartialWriteState")]
                   ELSE [procs EXCEPT ![p].pc = "w_mkdir",
                                      ![p].entered = TRUE,
                                      ![p].solo = ~busy,
                                      ![q].solo = IF busy THEN FALSE ELSE @]
    /\ UNCHANGED disk
    /\ CmdFrame

\* one step of write that leaves the store as d and goes on at `next`, or
\* fails with `error`
WriteStep(p, ok, d, next, error) ==
    /\ disk' = IF ok THEN d ELSE disk
    /\ procs' = [procs EXCEPT ![p] =
                    IF ok
                    THEN [procs[p] EXCEPT !.pc = next,
                                          !.wrote = @ \/ (d # disk)]
                    ELSE Die(p, error)]
    /\ CmdFrame

\* write: fs.mkdirp(tmp_new)
WMkdir(p) ==
    /\ procs[p].pc = "w_mkdir"
    /\ WriteStep(p, TRUE, MkDirP(disk, Slots.tmp_new), "w_specs", "none")

\* write: full_specs.json
WSpecs(p) ==
    /\ procs[p].pc = "w_specs"
    /\ LET r == OpenWrite(disk, Slots.tmp_new, "full_specs.json",
                          StoreSpecsByHash(procs[p].ctx.specs_by_hash))
       IN WriteStep(p, r.ok, r.disk, "w_yaml", "IOError")

\* write: context.yaml
WYaml(p) ==
    /\ procs[p].pc = "w_yaml"
    /\ LET r == OpenWrite(disk, Slots.tmp_new, "context.yaml",
                          ContextToDict(procs[p].ctx))
       IN WriteStep(p, r.ok, r.disk, "w_repo", "IOError")

\* write: the repository is copied into tmp_new
WRepo(p) ==
    /\ procs[p].pc = "w_repo"
    /\ LET r == IF procs[p].new_repo
                THEN CopyTree(disk, Slots.tmp_new, "repo", procs[p].repo)
                ELSE IF Exists(disk, Slots.dest) /\ "repo" \in DOMAIN disk[Slots.dest]
                THEN CopyTree(disk, Slots.tmp_new, "repo", disk[Slots.dest]["repo"])
                ELSE [ok |-> TRUE, disk |-> disk]
       IN WriteStep(p, r.ok, r.disk, "w_park", "OSError")

\* write: dest is parked as tmp_old
WPark(p) ==
    /\ procs[p].pc = "w_park"
    /\ LET r == ParkDest(disk, WritePaths(procs[p].ctx))
       IN WriteStep(p, r.ok, r.disk, "w_commit", "ShutilError")

\* write: tmp_new becomes dest; a command of the other process that has read
\* and has not committed began before this commit
WCommit(p) ==
    /\ procs[p].pc = "w_commit"
    /\ LET r == ShutilMove(disk, Slots.tmp_new, Slots.dest)
           q == Other(p)
           began == procs[q].seen # << >> /\ procs[q].pc # "done"
                    /\ ~procs[q].did_commit
       IN /\ disk' = r.disk
          /\ procs' = IF r.ok
                      THEN [procs EXCEPT ![p].pc = "w_clean",
                                         ![p].wrote = TRUE,
                                         ![p].did_commit = TRUE,
                                         ![q].overlap = @ \/ began]
                      ELSE [procs EXCEPT ![p] = Die(p, "IOError")]
    /\ CmdFrame

\* write: tmp_old is removed and write returns
WClean(p) ==
    /\ procs[p].pc = "w_clean"
    /\ LET d == IF Exists(disk, Slots.tmp_old) THEN RmTree(disk, Slots.tmp_old) ELSE disk
       IN /\ disk' = d
          /\ procs' = [procs EXCEPT ![p] =
                          [procs[p] EXCEPT !.pc = "done", !.result = "ok",
                                           !.wrote = @ \/ (d # disk),
                                           !.landed = Holds(d, procs[p].ctx)]]
    /\ CmdFrame

InitCmd ==
    /\ disk \in PreparedStores
    /\ latest \in {1, MaxVer}
    /\ ctx = NewContext(N)
    /\ pc = "idle"
    /\ wrepo = << >>
    /\ last = Call("init", << >>, "ok", << >>, 0)
    /\ committed = << >>
    /\ wPrior = << >>
    /\ wNew = << >>
    /\ crashAt = "none"
    /\ phase = "none"
    /\ nops = 0
    /\ procs = [p \in Procs |-> IdleProc]

NextCmd ==
    \/ \E p \in Procs : \E line \in CommandLines : Start(p, line)
    \/ \E p \in Procs : CreateCheck(p)
    \/ \E p \in Procs : ReadCheck(p)
    \/ \E p \in Procs : ReadYaml(p)
    \/ \E p \in Procs : ReadJson(p)
    \/ \E p \in Procs : Run(p)
    \/ \E p \in Procs : WCheck(p)
    \/ \E p \in Procs : WMkdir(p)
    \/ \E p \in Procs : WSpecs(p)
    \/ \E p \in Procs : WYaml(p)
    \/ \E p \in Procs : WRepo(p)
    \/ \E p \in Procs : WPark(p)
    \/ \E p \in Procs : WCommit(p)
    \/ \E p \in Procs : WClean(p)

SpecCmd == InitCmd /\ [][NextCmd]_vars

\* ------------------------------------------------------------------------
Residue == Exists(disk, Slots.tmp_new) \/ Exists(disk, Slots.tmp_old)

\* field-for-field equality of two Contexts
SameContext(c1, c2) ==
    /\ c1.user_specs = c2.user_specs
    /\ c1.concretized_order = c2.concretized_order
    /\ c1.common_libs = c2.common_libs
    /\ c1.common_bins = c2.common_bins
    /\ DOMAIN c1.specs_by_hash = DOMAIN c2.specs_by_hash
    /\ \A h \in DOMAIN c1.specs_by_hash : c1.specs_by_hash[h] = c2.specs_by_hash[h]

HasRequestFor(c, n) ==
    \E i \in 1..Len(c.user_specs) : ParseSpec(c.user_specs[i]).name = n

\* C1: a write() interrupted after N was renamed to .N and before _N was
\* renamed to N is completed by one repair(N): the read(N) that follows
\* succeeds and returns the state that was being written.
C1_RepairFinishesCommit ==
    (phase = "checked" /\ crashAt = "w_commit" /\ wPrior # << >>)
        => (last.result = "ok" /\ SameContext(ctx, wNew[1]))

\* C2: a write() over a committed N that is interrupted before N is renamed
\* to .N is undone by repair(N): the read(N) that follows succeeds and returns
\* the state committed before the write, and _N is gone.
C2_RepairDiscardsStaging ==
    (phase = "checked" /\ crashAt \in {"w_specs", "w_yaml", "w_repo", "w_park"}
        /\ wPrior # << >>)
        => (/\ last.result = "ok"
            /\ SameContext(ctx, wPrior[1])
            /\ ~Exists(disk, Slots.tmp_new))

\* C3: a read(N) that succeeds returns exactly the state committed before the
\* latest write() or exactly the state that write() was given, whether the
\* write completed or was interrupted at any statement; never a mix.
C3_AtomicVisibility ==
    (last.op = "read" /\ last.result = "ok")
        => \/ (wPrior # << >> /\ SameContext(ctx, wPrior[1]))
           \/ (wNew # << >> /\ SameContext(ctx, wNew[1]))

\* a write of a concretized context was interrupted after its commit rename
\* and the next read returned what it wrote
C3_Witness ==
    /\ phase = "crash_read"
    /\ last.result = "ok"
    /\ crashAt = "w_clean"
    /\ Len(ctx.concretized_order) > 0
    /\ SameContext(ctx, wNew[1])

\* C4: while _N or .N exists, write() and read() fail with PartialWriteState,
\* change neither the store nor the Context in memory, and no call other than
\* repair touches the store.
C4_ResidueBlocks ==
    [][ (pc = "idle" /\ Residue) =>
          /\ (last'.op \in {"read", "write"} =>
                 (last'.result = "PartialWriteState" /\ ctx' = ctx))
          /\ (last'.op # "repair" => disk' = disk) ]_vars

\* write() was refused while only the rollback slot .N was left behind
C4_Witness ==
    /\ last.op = "write"
    /\ last.result = "PartialWriteState"
    /\ Exists(disk, Slots.tmp_old)
    /\ ~Exists(disk, Slots.tmp_new)

\* C5: concretized_order is never longer than user_specs, and the graph
\* stored under concretized_order[i] has the package name of user_specs[i].
C5_PrefixAlignment ==
    /\ Len(ctx.concretized_order) <= Len(ctx.user_specs)
    /\ \A i \in 1..Len(ctx.concretized_order) :
          /\ ctx.concretized_order[i] \in DOMAIN ctx.specs_by_hash
          /\ i <= Len(ctx.user_specs)
          /\ ctx.specs_by_hash[ctx.concretized_order[i]].name
                = ParseSpec(ctx.user_specs[i]).name

\* a resolved request was removed in front of another resolved one while a
\* third request is still pending
C5_Witness ==
    /\ last.op = "remove"
    /\ last.result = "ok"
    /\ Len(ctx.concretized_order) >= 1
    /\ Len(ctx.user_specs) > Len(ctx.concretized_order)

\* C6: every hash in concretized_order is a key of specs_by_hash.
C6_CacheCoverage ==
    \A i \in 1..Len(ctx.concretized_order) :
        ctx.concretized_order[i] \in DOMAIN ctx.specs_by_hash

\* an upgrade replaced a root and left its old graph behind as an orphan
C6_Witness ==
    /\ last.op = "upgrade_dependency"
    /\ Len(ctx.concretized_order) >= 1
    /\ Cardinality(DOMAIN ctx.specs_by_hash) > Len(ctx.concretized_order)

\* C7: add() of a package name that already has a request fails with
\* DuplicatePackage and changes nothing; user_specs never holds two requests
\* for one package name.
C7_AddDuplicate ==
    /\ [][ (nops' = nops + 1 /\ last'.op = "add"
              /\ HasRequestFor(ctx, ParseSpec(last'.arg).name))
           => (last'.result = "DuplicatePackage" /\ ctx' = ctx) ]_vars
    /\ [](\A i, j \in 1..Len(ctx.user_specs) :
             ParseSpec(ctx.user_specs[i]).name = ParseSpec(ctx.user_specs[j]).name
                => i = j)

\* "lib@1" was refused because "lib" is already requested
C7_Witness ==
    /\ last.op = "add"
    /\ last.result = "DuplicatePackage"
    /\ last.arg = <<"lib", "@", 1>>
    /\ \E i \in 1..Len(ctx.user_specs) : ctx.user_specs[i] = <<"lib">>

\* C8: remove() of a package name without a request fails with NotFound and
\* leaves user_specs, concretized_order and specs_by_hash unchanged.
C8_RemoveAbsent ==
    [][ (nops' = nops + 1 /\ last'.op = "remove"
           /\ ~HasRequestFor(ctx, ParseSpec(last'.arg).name))
        => (/\ last'.result = "NotFound"
            /\ ctx'.user_specs = ctx.user_specs
            /\ ctx'.concretized_order = ctx.concretized_order
            /\ ctx'.specs_by_hash = ctx.specs_by_hash) ]_vars

\* a remove() was refused on a context that holds a resolved request
C8_Witness ==
    /\ last.op = "remove"
    /\ last.result = "NotFound"
    /\ Len(ctx.concretized_order) >= 1

\* C9: a concretize() that directly follows a concretize() that returned
\* calls the resolver zero times, returns an empty list and changes nothing.
C9_ConcretizeIdempotent ==
    [][ (phase \in {"concretized", "reconcretized"} /\ phase' = "reconcretized")
        => (/\ last'.op = "concretize"
            /\ last'.calls = 0
            /\ last'.ret = << >>
            /\ ctx' = ctx) ]_vars

\* the second of two consecutive concretize() calls on two resolved requests
C9_Witness ==
    /\ phase = "reconcretized"
    /\ last.op = "concretize"
    /\ Len(ctx.concretized_order) >= 2

\* C10: read(N) directly after a completed write(c) succeeds and returns a
\* Context equal to c in user_specs, concretized_order, common_libs,
\* common_bins and specs_by_hash.
C10_RoundTrip ==
    phase = "roundtrip" => (last.result = "ok" /\ SameContext(ctx, wNew[1]))

\* a context with a resolved root that has a dependency was written and read
C10_Witness ==
    /\ phase = "roundtrip"
    /\ last.result = "ok"
    /\ \E h \in DOMAIN ctx.specs_by_hash : ctx.specs_by_hash[h].deps # << >>
    /\ Len(ctx.concretized_order) >= 1

\* C11: for a Context with at least one resolved request,
\* Context.from_dict(name, c.to_dict()) has the specs_by_hash of c.
C11_DictRoundTrip ==
    (last.op = "from_dict" /\ Len(ctx.concretized_order) >= 1)
        => /\ DOMAIN last.ret[1].specs_by_hash = DOMAIN ctx.specs_by_hash
           /\ \A h \in DOMAIN ctx.specs_by_hash :
                 last.ret[1].specs_by_hash[h] = ctx.specs_by_hash[h]

\* the resolved roots of c, in concretized_order
RootAt(c, i) == c.specs_by_hash[c.concretized_order[i]]

\* package names root i contributes over link/run edges
LinkRunNames(c, i) ==
    {RootAt(c, i).name} \cup
    {RootAt(c, i).deps[k].name :
        k \in {k \in 1..Len(RootAt(c, i).deps) :
                  RootAt(c, i).deps[k].type \in {"link", "run"}}}

\* the earliest root that contributes package name n
FirstRootWith(c, n) ==
    CHOOSE i \in 1..Len(c.concretized_order) :
        /\ n \in LinkRunNames(c, i)
        /\ \A j \in 1..(i - 1) : n \notin LinkRunNames(c, j)

\* C12: flatten returns one node per package name reachable over link/run
\* edges from a resolved root, and that node is the one of the earliest root
\* in concretized_order that reaches the name.
C12_FirstWriterWins ==
    (last.op = "flatten" /\ last.result = "ok")
        => LET chosen == last.ret[1].package_to_spec
               listed == last.ret[1].specs
           IN /\ DOMAIN chosen =
                    UNION {LinkRunNames(ctx, i) : i \in 1..Len(ctx.concretized_order)}
              /\ \A x, y \in listed : x.name = y.name => x = y
              /\ \A n \in DOMAIN chosen :
                    /\ chosen[n] \in listed
                    /\ chosen[n] = NodeOf(RootAt(ctx, FirstRootWith(ctx, n)), n)

\* two roots reach different versions of "lib"; the first root's was chosen
C12_Witness ==
    /\ last.op = "flatten"
    /\ last.result = "ok"
    /\ \E i, j \in 1..Len(ctx.concretized_order) :
          /\ i < j
          /\ "lib" \in LinkRunNames(ctx, i) \cap LinkRunNames(ctx, j)
          /\ NodeOf(RootAt(ctx, i), "lib") # NodeOf(RootAt(ctx, j), "lib")
          /\ last.ret[1].package_to_spec["lib"] = NodeOf(RootAt(ctx, i), "lib")

\* C13: flatten warns exactly once for each node of a later root whose
\* package name is already selected and whose resolution differs from the
\* selected node; a later root reaching the very same node is not warned about.
C13_WarnsOnConflictOnly ==
    (last.op = "flatten" /\ last.result = "ok")
        => LET warns == last.ret[1].warnings
               conflicts ==
                 {<<i, n>> \in (1..Len(ctx.concretized_order)) \X Names :
                     /\ n \in LinkRunNames(ctx, i)
                     /\ FirstRootWith(ctx, n) < i
                     /\ NodeOf(RootAt(ctx, i), n)
                           # NodeOf(RootAt(ctx, FirstRootWith(ctx, n)), n)}
           IN /\ \A k \in 1..Len(warns) : warns[k].winner # warns[k].loser
              /\ Len(warns) = Cardinality(conflicts)

\* C14: a concretize() that returns leaves the resolved prefix in place,
\* appends the hash of each pending request in order, stores its graph,
\* returns exactly those graphs, and ends with as many hashes as requests.
C14_ConcretizeSuffix ==
    [][ (nops' = nops + 1 /\ last'.op = "concretize" /\ last'.result = "ok")
        => LET k == Len(ctx.concretized_order)
               n == Len(ctx.user_specs)
               graph(i) == ConcretizeSpec(ParseSpec(ctx.user_specs[i]), latest)
           IN /\ ctx'.user_specs = ctx.user_specs
              /\ Len(ctx'.concretized_order) = n
              /\ \A i \in 1..k : ctx'.concretized_order[i] = ctx.concretized_order[i]
              /\ \A i \in (k + 1)..n :
                    /\ ctx'.concretized_order[i] = DagHash(graph(i))
                    /\ DagHash(graph(i)) \in DOMAIN ctx'.specs_by_hash
                    /\ ctx'.specs_by_hash[DagHash(graph(i))] = graph(i)
              /\ last'.ret = [j \in 1..(n - k) |-> graph(k + j)]
              /\ last'.calls = n - k ]_vars

\* a concretize() resolved a pending request behind an already resolved one
C14_Witness ==
    /\ last.op = "concretize"
    /\ last.result = "ok"
    /\ last.calls >= 1
    /\ Len(ctx.concretized_order) > last.calls

\* C16: upgrade_dependency(dep_name, dry_run=False) keeps user_specs and the
\* length of concretized_order; a root without dep_name keeps its hash at its
\* index, a root with dep_name gets the hash of its re-resolved graph there.
C16_UpgradeKeepsOrder ==
    [][ (nops' = nops + 1 /\ last'.op = "upgrade_dependency"
           /\ last'.arg[2] = "run" /\ last'.result = "ok")
        => /\ ctx'.user_specs = ctx.user_specs
           /\ Len(ctx'.concretized_order) = Len(ctx.concretized_order)
           /\ \A i \in 1..Len(ctx.concretized_order) :
                 IF Contains(RootAt(ctx, i), last'.arg[1])
                 THEN /\ ctx'.concretized_order[i] =
                           DagHash(UpgradeDependencyVersion(
                                      RootAt(ctx, i), last'.arg[1], latest))
                      /\ ctx'.concretized_order[i] \in DOMAIN ctx'.specs_by_hash
                      /\ RootAt(ctx', i).name = RootAt(ctx, i).name
                 ELSE ctx'.concretized_order[i] = ctx.concretized_order[i] ]_vars

\* an upgrade re-resolved one of two roots and left the other in place
C16_Witness ==
    /\ last.op = "upgrade_dependency"
    /\ last.arg[2] = "run"
    /\ last.result = "ok"
    /\ last.calls = 1
    /\ Len(ctx.concretized_order) >= 2

\* C17: after reset_os_and_compiler the keys of specs_by_hash are exactly the
\* hashes in concretized_order, and user_specs and the length of
\* concretized_order are what they were.
C17_ResetRebuilds ==
    [][ (nops' = nops + 1 /\ last'.op = "reset_os_and_compiler"
           /\ last'.result = "ok")
        => /\ DOMAIN ctx'.specs_by_hash =
                 {ctx'.concretized_order[i] : i \in 1..Len(ctx'.concretized_order)}
           /\ Len(ctx'.concretized_order) = Len(ctx.concretized_order)
           /\ ctx'.user_specs = ctx.user_specs ]_vars

\* a reset ran on a context that held an orphan left by an upgrade
C17_Witness ==
    /\ phase = "rebuilt"
    /\ last.op = "reset_os_and_compiler"
    /\ last.result = "ok"
    /\ Len(ctx.concretized_order) >= 1
    /\ DOMAIN ctx.specs_by_hash =
          {ctx.concretized_order[i] : i \in 1..Len(ctx.concretized_order)}
\* C15: `upgrade <dep> --dry-run` mutates nothing.  At every point of the
\* command the store was not touched by it and write() was not entered; once
\* the Context is read, user_specs, concretized_order and specs_by_hash stay
\* as read, and the resolver is never invoked.
C15_DryRunMutatesNothing ==
    \A p \in Procs :
        (procs[p].cmd = "upgrade" /\ procs[p].dry_run)
        => /\ ~procs[p].wrote
           /\ ~procs[p].entered
           /\ procs[p].calls = 0
           /\ procs[p].seen # << >> => SameContext(procs[p].ctx, procs[p].seen[1])

\* a dry run has finished on a context in which the real upgrade would have
\* replaced a root
C15_Witness ==
    \E p \in Procs :
        /\ procs[p].cmd = "upgrade" /\ procs[p].dry_run
        /\ procs[p].pc = "done" /\ procs[p].result = "ok"
        /\ procs[p].seen # << >>
        /\ LET real == ContextUpgradeDependency(procs[p].seen[1], "lib", FALSE, latest)
           IN real.calls > 0 /\ ~SameContext(real.ctx, procs[p].seen[1])

\* C18: a command that aborts with DuplicatePackage, NotFound or
\* ResolutionFailure has not entered write() and has changed nothing in the
\* store; when it is the only command run so far, N is the initial committed
\* directory and neither _N nor .N exists.
C18_AbortWritesNothing ==
    \A p \in Procs :
        procs[p].result \in {"DuplicatePackage", "NotFound", "ResolutionFailure"}
        => /\ procs[p].pc = "done"
           /\ ~procs[p].wrote
           /\ ~procs[p].entered
           /\ Started = 1 => (disk \in PreparedStores /\ ~Residue)

\* one command aborted on a duplicate and another on a resolution failure,
\* each after an earlier argument had been applied in memory
C18_Witness ==
    \E p \in Procs :
        /\ procs[p].result = "DuplicatePackage"
        /\ procs[p].seen # << >>
        /\ Len(procs[p].ctx.user_specs) > Len(procs[p].seen[1].user_specs)
        /\ procs[Other(p)].result = "ResolutionFailure"
        /\ procs[Other(p)].seen # << >>
        /\ Len(procs[Other(p)].ctx.concretized_order)
              > Len(procs[Other(p)].seen[1].concretized_order)

\* the command of p called write(context)
CalledWrite(p) == procs[p].entered \/ (procs[p].seen # << >> /\ procs[p].result = "PartialWriteState")

\* C19 (as claimed): a mutating command that read N before the other
\* command's commit and then called write() finishes without error, and N
\* then holds exactly its Context, in every interleaving.
C19_LastWriterWins ==
    \A p \in Procs :
        (procs[p].overlap /\ procs[p].pc = "done" /\ CalledWrite(p))
        => (procs[p].result = "ok" /\ procs[p].landed)

\* C19 (amended): a mutating command that read N before the other command's
\* commit, whose write() found neither _N nor .N and ran while no other
\* write() on N was in progress, finishes without error, and N then holds
\* exactly its Context: the other command's changes are overwritten.
C19_SerialWritesLastWins ==
    \A p \in Procs :
        (procs[p].overlap /\ procs[p].pc = "done" /\ procs[p].entered /\ procs[p].solo)
        => (procs[p].result = "ok" /\ procs[p].landed)

\* the second command overwrote a different Context the first had committed
C19_Witness ==
    \E p \in Procs :
        /\ procs[p].overlap /\ procs[p].pc = "done"
        /\ procs[p].entered /\ procs[p].solo
        /\ procs[p].result = "ok" /\ procs[p].landed
        /\ procs[Other(p)].did_commit /\ procs[Other(p)].result = "ok"
        /\ procs[Other(p)].ctx.user_specs # procs[p].seen[1].user_specs
        /\ procs[Other(p)].ctx.user_specs # procs[p].ctx.user_specs
        /\ Holds(disk, procs[p].ctx)

\* C20: a read(N) that returns, returns N as it was as a whole at one of the
\* instants it loaded a file: concretized_order and specs_by_hash come from
\* the same committed version.
C20_ReadIsAtomic ==
    \A p \in Procs :
        procs[p].seen # << >>
        => \E i \in 1..Len(procs[p].snap) : SameContext(procs[p].seen[1], procs[p].snap[i])

====
